---- MODULE Spec2Model ----
(***************************************************************************)
(* State-machine model of two widgets of eddington-gui:                    *)
(*   InputFileBox          (boxes/input_file_box.py)                       *)
(*   PlotConfigurationBox  (boxes/plot_configuration_box.py)               *)
(* Text values are sequences of one-character strings, so that suffix      *)
(* extraction and float parsing are computed character by character.       *)
(***************************************************************************)
EXTENDS Integers, Sequences, FiniteSets, TLC

VARIABLES
    \* ---- InputFileBox, one entry per instance ----
    main_window,          \* __main_window: None or the window
    file_path,            \* __input_file_path.value
    select_sheet_items,   \* __select_sheet.items
    select_sheet_enabled, \* __select_sheet.enabled
    data_dict,            \* __data_dict (instance attribute once assigned)
    handlers,             \* __handlers: ONE list, a class attribute
    registered,           \* history: callbacks passed to add_handler, per instance
    lastEvent,            \* history: what the latest InputFileBox call did
    \* ---- PlotConfigurationBox ----
    has_legend,           \* __has_legend (constructor argument)
    suffix,               \* suffix (constructor argument)
    base_name,            \* __base_name: <<>> for None, <<text>> otherwise
    xcolumn,              \* __xcolumn, likewise
    ycolumn,              \* __ycolumn, likewise
    title_input,          \* __title_input.value
    xlabel_input,         \* __xlabel_input.value
    ylabel_input,         \* __ylabel_input.value
    grid_switch,          \* __grid_switch.value
    legend_switch,        \* __legend_switch: None, or the switch's value
    x_domain_switch,      \* __x_domain_switch.value
    visibility,           \* style.visibility of the four bound widgets
    x_min_input,          \* __x_min_input.value
    x_max_input,          \* __x_max_input.value
    x_log_scale,          \* __x_log_scale.value
    y_log_scale,          \* __y_log_scale.value
    ret                   \* history: outcome of the latest panel call

fileVars == <<main_window, file_path, select_sheet_items, select_sheet_enabled,
              data_dict, handlers, registered, lastEvent>>

plotVars == <<has_legend, suffix, base_name, xcolumn, ycolumn, title_input,
              xlabel_input, ylabel_input, grid_switch, legend_switch,
              x_domain_switch, visibility, x_min_input, x_max_input,
              x_log_scale, y_log_scale, ret>>

vars == <<fileVars, plotVars>>

None == "None"
NO_VALUE == "NO_VALUE"

\* ---------------------------------------------------------------- bounds
MaxHandlers == 2

Boxes == {"A", "B"}
Callbacks == 1..MaxHandlers

\* File names the dialog may return.
PathCsv == <<"d", ".", "c", "s", "v">>
PathXlsx == <<"d", ".", "x", "l", "s", "x">>
PathXls == <<"s", ".", "d", "/", "e", ".", "x", "l", "s">>
PathDotDir == <<"a", ".", "x", "l", "s", "/", "f">>
Paths == {PathCsv, PathXlsx, PathXls, PathDotDir}

\* Sheet-name lists a workbook may hold.
SheetLists == {<<"S1">>, <<"S2", "S1">>}
\* Datasets the reader may return.
Datasets == {"D1", "D2"}

Range(s) == {s[i] : i \in 1..Len(s)}

\* ------------------------------------------------------- pathlib helpers
\* Index of the last occurrence of c in s, 0 when there is none (str.rfind + 1).
RFind(s, c) ==
    LET hits == {i \in 1..Len(s) : s[i] = c}
    IN IF hits = {} THEN 0 ELSE CHOOSE i \in hits : \A j \in hits : j <= i

\* Path(p).name: the final component.
Name(p) == SubSeq(p, RFind(p, "/") + 1, Len(p))

\* Path(p).suffix: from the last dot of the name, unless the dot is the first
\* or the last character of the name.
Suffix(p) ==
    LET name == Name(p)
        i == RFind(name, ".")
    IN IF 1 < i /\ i < Len(name) THEN SubSeq(name, i, Len(name)) ELSE <<>>

SpreadsheetSuffixes == {<<".", "x", "l", "s", "x">>, <<".", "x", "l", "s">>}

\* ------------------------------------------------------ InputFileBox
\* What a call that touched nothing reports.
QuietEvent(op, b) ==
    [op |-> op, box |-> b, outcome |-> "returned", exc |-> None,
     dialog |-> None, picked |-> <<>>, value |-> None, reader |-> None,
     assigned |-> <<>>, calls |-> <<>>, dialogs |-> <<>>, reads |-> <<>>]

\* sheets_options setter; options is <<>> for None, <<list>> for a list.
SheetsOptionsSet(options) ==
    IF options = <<>>
    THEN [items |-> <<>>, enabled |-> FALSE]
    ELSE [items |-> options[1], enabled |-> TRUE]

\* Faulty variant of DataDictSet: the handlers run before the value is stored.
DataDictSetNotifiesFirst(hs, old, v) ==
    [stored |-> v,
     calls |-> [i \in 1..Len(hs) |-> [fn |-> hs[i], arg |-> v, seen |-> old]]]

\* data_dict setter: store, then call every handler of the list in order.
\* seen is what self.data_dict holds while the handler runs.
DataDictSet(hs, old, v) ==
    LET stored == v
    IN [stored |-> stored,
        calls |-> [i \in 1..Len(hs) |-> [fn |-> hs[i], arg |-> v, seen |-> stored]]]

set_main_window(b) ==
    /\ main_window' = [main_window EXCEPT ![b] = "window"]
    /\ lastEvent' = QuietEvent("set_main_window", b)
    /\ UNCHANGED <<file_path, select_sheet_items, select_sheet_enabled,
                   data_dict, handlers, registered>>
    /\ UNCHANGED plotVars

\* add_handler appends to the list the class holds; fn is a fresh callback,
\* named by the number of its registration.
add_handler(b, fn) ==
    /\ Len(handlers) < MaxHandlers
    /\ fn = Len(handlers) + 1
    /\ handlers' = Append(handlers, fn)
    /\ registered' = [registered EXCEPT ![b] = Append(@, fn)]
    /\ lastEvent' = QuietEvent("add_handler", b)
    /\ UNCHANGED <<main_window, file_path, select_sheet_items,
                   select_sheet_enabled, data_dict>>
    /\ UNCHANGED plotVars

\* Faulty variant of SelectFileCancelled: the cancellation is not caught as such and
\* the call goes on as if the empty path had been picked.
SelectFileCancelledFallsThrough(b) ==
    /\ file_path' = [file_path EXCEPT ![b] = <<>>]
    /\ select_sheet_items' = [select_sheet_items EXCEPT ![b] = <<>>]
    /\ select_sheet_enabled' = [select_sheet_enabled EXCEPT ![b] = FALSE]
    /\ data_dict' = [data_dict EXCEPT ![b] = None]
    /\ lastEvent' = [QuietEvent("select_file", b) EXCEPT
                       !.dialog = "cancelled", !.assigned = <<None>>,
                       !.calls = DataDictSet(handlers, data_dict[b], None).calls]
    /\ UNCHANGED <<main_window, handlers, registered>>
    /\ UNCHANGED plotVars

\* select_file with the dialog cancelled: open_file_dialog raises ValueError.
SelectFileCancelled(b) ==
    /\ lastEvent' = [QuietEvent("select_file", b) EXCEPT !.dialog = "cancelled"]
    /\ UNCHANGED <<main_window, file_path, select_sheet_items,
                   select_sheet_enabled, data_dict, handlers, registered>>
    /\ UNCHANGED plotVars

\* select_file with the user picking path p; wb is <<>> when open_workbook
\* fails and <<names>> when it yields the sheet names.
SelectFilePicked(b, p, wb) ==
    LET isSheet == Suffix(p) \in SpreadsheetSuffixes
        failed == isSheet /\ wb = <<>>
        opts == SheetsOptionsSet(IF isSheet THEN <<(<<NO_VALUE>> \o wb[1])>> ELSE <<>>)
        set == DataDictSet(handlers, data_dict[b], None)
    IN /\ file_path' = [file_path EXCEPT ![b] = p]
       /\ IF failed
          THEN /\ UNCHANGED <<select_sheet_items, select_sheet_enabled, data_dict>>
               /\ lastEvent' = [QuietEvent("select_file", b) EXCEPT
                                  !.dialog = "picked", !.picked = <<p>>,
                                  !.outcome = "raised",
                                  !.exc = "WorkbookError"]
          ELSE /\ select_sheet_items' = [select_sheet_items EXCEPT ![b] = opts.items]
               /\ select_sheet_enabled' = [select_sheet_enabled EXCEPT ![b] = opts.enabled]
               /\ data_dict' = [data_dict EXCEPT ![b] = set.stored]
               /\ lastEvent' = [QuietEvent("select_file", b) EXCEPT
                                  !.dialog = "picked", !.picked = <<p>>,
                                  !.assigned = <<None>>,
                                  !.calls = set.calls]
       /\ UNCHANGED <<main_window, handlers, registered>>
       /\ UNCHANGED plotVars

\* select_file before set_main_window: None has no open_file_dialog.
SelectFileNoWindow(b) ==
    /\ lastEvent' = [QuietEvent("select_file", b) EXCEPT
                       !.outcome = "raised", !.exc = "AttributeError"]
    /\ UNCHANGED <<main_window, file_path, select_sheet_items,
                   select_sheet_enabled, data_dict, handlers, registered>>
    /\ UNCHANGED plotVars

select_file(b) ==
    IF main_window[b] = None
    THEN SelectFileNoWindow(b)
    ELSE \/ SelectFileCancelled(b)
         \/ \E p \in Paths : \E wb \in {<<>>} \cup {<<n>> : n \in SheetLists} :
                SelectFilePicked(b, p, wb)

\* Faulty variant of SelectSheetEffect: the except branch shows the dialog and leaves
\* the dataset as it was.
SelectSheetEffectKeepsData(b, value, reader) ==
    LET base == [QuietEvent("select_sheet", b) EXCEPT !.value = value]
        path == file_path[b]
        set == DataDictSet(handlers, data_dict[b],
                           IF value # NO_VALUE /\ reader[1] = "ok" THEN reader[2] ELSE None)
    IN IF value = NO_VALUE
       THEN [data |-> set.stored,
             event |-> [base EXCEPT !.assigned = <<None>>, !.calls = set.calls]]
       ELSE IF reader[1] = "ok"
       THEN [data |-> set.stored,
             event |-> [base EXCEPT !.reader = "ok", !.assigned = <<reader[2]>>,
                          !.calls = set.calls,
                          !.reads = <<[filepath |-> path, sheet |-> value]>>]]
       ELSE [data |-> data_dict[b],
             event |-> [base EXCEPT !.reader = "invalid",
                          !.reads = <<[filepath |-> path, sheet |-> value]>>,
                          !.dialogs = <<[title |-> "Invalid Input Source",
                                         sheet |-> value, file |-> Name(path)]>>]]

\* What select_sheet does with sheet `value`; reader is the outcome of
\* read_data_from_excel, <<"ok", dataset>> or <<"invalid">> (InvalidDataFile),
\* and is not looked at when the sentinel is selected.
SelectSheetEffect(b, value, reader) ==
    LET base == [QuietEvent("select_sheet", b) EXCEPT !.value = value]
        path == file_path[b]
        clear == DataDictSet(handlers, data_dict[b], None)
    IN IF value = NO_VALUE
       THEN [data |-> clear.stored,
             event |-> [base EXCEPT !.assigned = <<None>>, !.calls = clear.calls]]
       ELSE IF reader[1] = "ok"
       THEN LET set == DataDictSet(handlers, data_dict[b], reader[2])
            IN [data |-> set.stored,
                event |-> [base EXCEPT !.reader = "ok", !.assigned = <<reader[2]>>,
                             !.calls = set.calls,
                             !.reads = <<[filepath |-> path, sheet |-> value]>>]]
       ELSE [data |-> clear.stored,
             event |-> [base EXCEPT !.reader = "invalid", !.assigned = <<None>>,
                          !.calls = clear.calls,
                          !.reads = <<[filepath |-> path, sheet |-> value]>>,
                          !.dialogs = <<[title |-> "Invalid Input Source",
                                         sheet |-> value, file |-> Name(path)]>>]]

\* The dropdown fires select_sheet when the user picks one of its items.
select_sheet(b) ==
    /\ select_sheet_enabled[b]
    /\ \E value \in Range(select_sheet_items[b]) :
       \E reader \in (IF value = NO_VALUE THEN {<<"not called">>}
                      ELSE {<<"invalid">>} \cup {<<"ok", d>> : d \in Datasets}) :
          LET eff == SelectSheetEffect(b, value, reader)
          IN /\ data_dict' = [data_dict EXCEPT ![b] = eff.data]
             /\ lastEvent' = eff.event
    /\ UNCHANGED <<main_window, file_path, select_sheet_items,
                   select_sheet_enabled, handlers, registered>>
    /\ UNCHANGED plotVars

InitFile ==
    /\ main_window = [b \in Boxes |-> None]
    /\ file_path = [b \in Boxes |-> <<>>]
    /\ select_sheet_items = [b \in Boxes |-> <<>>]
    /\ select_sheet_enabled = [b \in Boxes |-> FALSE]
    /\ data_dict = [b \in Boxes |-> None]
    /\ handlers = <<>>
    /\ registered = [b \in Boxes |-> <<>>]
    /\ lastEvent = QuietEvent("__init__", "A")

NextFile ==
    \E b \in Boxes :
        \/ set_main_window(b)
        \/ \E fn \in Callbacks : add_handler(b, fn)
        \/ select_file(b)
        \/ select_sheet(b)


\* ------------------------------------------------- str and float helpers
Digits == <<"0", "1", "2", "3", "4", "5", "6", "7", "8", "9">>
IsDigit(c) == c \in Range(Digits)
DigitVal(c) == (CHOOSE i \in 1..10 : Digits[i] = c) - 1

LowerLetters == <<"a", "b", "c", "f", "i", "n", "t", "x", "y">>
UpperLetters == <<"A", "B", "C", "F", "I", "N", "T", "X", "Y">>
IsCased(c) == c \in Range(LowerLetters) \cup Range(UpperLetters)
Upper(c) == IF c \in Range(LowerLetters)
            THEN UpperLetters[CHOOSE i \in 1..Len(LowerLetters) : LowerLetters[i] = c]
            ELSE c
Lower(c) == IF c \in Range(UpperLetters)
            THEN LowerLetters[CHOOSE i \in 1..Len(UpperLetters) : UpperLetters[i] = c]
            ELSE c

\* str.title(): a cased character is upper-cased when it starts a word (the
\* character before it is not cased) and lower-cased otherwise.
StrTitle(s) ==
    [i \in 1..Len(s) |->
        IF i = 1 \/ ~IsCased(s[i - 1]) THEN Upper(s[i]) ELSE Lower(s[i])]

\* str.strip(): drop leading and trailing blanks.
Strip(s) ==
    LET solid == {i \in 1..Len(s) : s[i] # " "}
    IN IF solid = {} THEN <<>>
       ELSE SubSeq(s, CHOOSE i \in solid : \A j \in solid : i <= j,
                      CHOOSE i \in solid : \A j \in solid : j <= i)

\* Index just after the run of digits of s that starts at i (i itself when
\* s[i] is no digit). A single underscore may separate two digits.
RECURSIVE ScanDigits(_, _)
ScanDigits(s, i) ==
    IF i > Len(s) THEN i
    ELSE IF IsDigit(s[i]) THEN ScanDigits(s, i + 1)
    ELSE IF /\ s[i] = "_" /\ i > 1 /\ i < Len(s)
            /\ IsDigit(s[i - 1]) /\ IsDigit(s[i + 1]) THEN ScanDigits(s, i + 1)
    ELSE i

\* The number written by the digits of s[i..j-1], after the digits of acc.
RECURSIVE DigitsValue(_, _, _, _)
DigitsValue(s, i, j, acc) ==
    IF i >= j THEN acc
    ELSE IF IsDigit(s[i]) THEN DigitsValue(s, i + 1, j, 10 * acc + DigitVal(s[i]))
    ELSE DigitsValue(s, i + 1, j, acc)

DigitCount(s, i, j) == Cardinality({k \in i..(j - 1) : IsDigit(s[k])})

\* mant * 10^exp with the trailing zeros of mant moved into exp.
RECURSIVE Normalise(_, _)
Normalise(mant, exp) ==
    IF mant = 0 THEN [mant |-> 0, exp |-> 0]
    ELSE IF mant % 10 = 0 THEN Normalise(mant \div 10, exp + 1)
    ELSE [mant |-> mant, exp |-> exp]

BadFloat == [ok |-> FALSE, special |-> "", mant |-> 0, exp |-> 0]

\* float(text), read left to right: blanks stripped, an optional sign, then
\* inf / nan or digits [. digits] [e [sign] digits] with at least one
\* mantissa digit and nothing after. The value is mant * 10^exp.

\* The exponent part, from index f1; mant holds the mantissa digits, of which
\* fracDigits stand after the point.
FloatExponent(s, f1, neg, mantDigits, fracDigits, mant) ==
    LET n == Len(s)
        hasExp == f1 <= n /\ s[f1] \in {"e", "E"}
        eSigned == hasExp /\ f1 + 1 <= n /\ s[f1 + 1] \in {"+", "-"}
        e0 == IF eSigned THEN f1 + 2 ELSE f1 + 1
        e1 == IF hasExp THEN ScanDigits(s, e0) ELSE f1
        eNeg == eSigned /\ s[f1 + 1] = "-"
    IN IF mantDigits > 0 /\ (hasExp => DigitCount(s, e0, e1) > 0) /\ e1 = n + 1
       THEN LET expVal == IF hasExp
                          THEN (IF eNeg THEN -1 ELSE 1) * DigitsValue(s, e0, e1, 0)
                          ELSE 0
                norm == Normalise(IF neg THEN -mant ELSE mant, expVal - fracDigits)
            IN [ok |-> TRUE, special |-> "", mant |-> norm.mant, exp |-> norm.exp]
       ELSE BadFloat

\* The fraction part, from index i1, after the integer digits s[i0..i1-1].
FloatFraction(s, i0, i1, neg) ==
    LET dot == i1 <= Len(s) /\ s[i1] = "."
        f1 == IF dot THEN ScanDigits(s, i1 + 1) ELSE i1
        fracDigits == IF dot THEN DigitCount(s, i1 + 1, f1) ELSE 0
        whole == DigitsValue(s, i0, i1, 0)
    IN FloatExponent(s, f1, neg, DigitCount(s, i0, i1) + fracDigits, fracDigits,
                     IF dot THEN DigitsValue(s, i1 + 1, f1, whole) ELSE whole)

\* The unsigned part, from index i0.
FloatUnsigned(s, i0, neg) ==
    LET word == [k \in 1..(Len(s) - i0 + 1) |-> Lower(s[k + i0 - 1])]
    IN IF word \in {<<"i", "n", "f">>, <<"i", "n", "f", "i", "n", "i", "t", "y">>}
       THEN [ok |-> TRUE, special |-> IF neg THEN "-inf" ELSE "inf", mant |-> 0, exp |-> 0]
       ELSE IF word = <<"n", "a", "n">>
       THEN [ok |-> TRUE, special |-> "nan", mant |-> 0, exp |-> 0]
       ELSE FloatFraction(s, i0, ScanDigits(s, i0), neg)

FloatStripped(s) ==
    IF Len(s) > 0 /\ s[1] \in {"+", "-"}
    THEN FloatUnsigned(s, 2, s[1] = "-")
    ELSE FloatUnsigned(s, 1, FALSE)

ParseFloat(text) == FloatStripped(Strip(text))

\* ------------------------------------------------ PlotConfigurationBox
\* Texts typed into the bound fields.
TextEmpty == <<>>
TextOneAndHalf == <<"1", ".", "5">>
TextMinusTwenty == <<" ", "-", "2", "e", "1">>
TextLetters == <<"a", "b", "c">>
BoundTexts == {TextEmpty, TextOneAndHalf, TextMinusTwenty, TextLetters}

SuffixFit == <<"f", "i", "t">>
Suffixes == {<<>>, SuffixFit}
BaseNames == {<<"a", "b">>}
ColumnPairs == {<<(<<"x">>), (<<"y">>)>>, <<(<<>>), (<<>>)>>}
LabelTexts == {<<>>, <<"T">>}

HIDDEN == "hidden"
VISIBLE == "visible"

\* Outcomes of a call: it returns a value (None included) or raises.
Returns(op, v) == [op |-> op, kind |-> "returns", exc |-> None, message |-> "", value |-> v]
\* A method without a return statement returns None.
ReturnsNone == Returns("method", None)
Raises(op, exc, msg) == [op |-> op, kind |-> "raises", exc |-> exc, message |-> msg, value |-> None]

\* title property: the text in a one-element tuple (it is never None).
title ==
    IF title_input # <<>> THEN <<title_input>>
    ELSE IF base_name # <<>> THEN <<base_name[1] \o <<" ", "-", " ">> \o StrTitle(suffix)>>
    ELSE <<suffix>>

\* xlabel / ylabel properties: <<>> for None.
xlabel ==
    IF xlabel_input # <<>> THEN <<xlabel_input>>
    ELSE IF xcolumn # <<>> THEN xcolumn
    ELSE <<>>

ylabel ==
    IF ylabel_input # <<>> THEN <<ylabel_input>>
    ELSE IF ycolumn # <<>> THEN ycolumn
    ELSE <<>>

grid == grid_switch

legend == legend_switch # None /\ legend_switch = "on"

\* Faulty variant of BoundValue: text that is no number is read as 0.0.
BoundValueCoerces(op, text, msg) ==
    IF ~x_domain_switch \/ text = <<>> THEN Returns(op, None)
    ELSE LET f == ParseFloat(text)
         IN Returns(op, [special |-> f.special, mant |-> f.mant, exp |-> f.exp])

\* xmin / xmax properties.
BoundValue(op, text, msg) ==
    IF ~x_domain_switch \/ text = <<>> THEN Returns(op, None)
    ELSE LET f == ParseFloat(text)
         IN IF f.ok THEN Returns(op, [special |-> f.special, mant |-> f.mant, exp |-> f.exp])
            ELSE Raises(op, "EddingtonException", msg)

xmin == BoundValue("xmin", x_min_input, "X minimum value must a floating number")

xmax == BoundValue("xmax", x_max_input, "X maximum value must a floating number")

\* interval property: xmin is evaluated first, then xmax.
interval ==
    IF xmin.kind = "raises" THEN [xmin EXCEPT !.op = "interval"]
    ELSE IF xmax.kind = "raises" THEN [xmax EXCEPT !.op = "interval"]
    ELSE Returns("interval", [min_val |-> xmin.value, max_val |-> xmax.value])

\* get_plot_kwargs: the dict as a record; legend is a key only with __has_legend.
PlotKwargs ==
    LET kwargs == [title_name |-> title, xlabel |-> xlabel, ylabel |-> ylabel,
                   grid |-> grid, x_log_scale |-> x_log_scale,
                   y_log_scale |-> y_log_scale,
                   xmin |-> xmin.value, xmax |-> xmax.value]
    IN IF xmin.kind = "raises" THEN [xmin EXCEPT !.op = "get_plot_kwargs"]
       ELSE IF xmax.kind = "raises" THEN [xmax EXCEPT !.op = "get_plot_kwargs"]
       ELSE IF has_legend
       THEN Returns("get_plot_kwargs", kwargs @@ [legend |-> legend])
       ELSE Returns("get_plot_kwargs", kwargs)

\* Faulty variant of FigureBuilder: texts are attached when they are non-empty.
FigureBuilderSkipsEmpty ==
    LET Text(name, v) == IF v # <<>> /\ v[1] # <<>>
                         THEN <<[name |-> name, arg |-> v[1]]>> ELSE <<>>
        instructions ==
            Text("add_title", title) \o Text("add_xlabel", xlabel)
            \o Text("add_ylabel", ylabel)
            \o (IF grid THEN <<[name |-> "add_grid", arg |-> <<>>]>> ELSE <<>>)
            \o (IF legend THEN <<[name |-> "add_legend", arg |-> <<>>]>> ELSE <<>>)
    IN IF interval.kind = "raises"
       THEN [Raises("build_figure_builder", interval.exc, interval.message)
                EXCEPT !.value = [instructions |-> instructions, callback |-> <<>>]]
       ELSE Returns("build_figure_builder",
                    [instructions |-> instructions,
                     callback |-> <<[builder |-> instructions,
                                     interval |-> interval.value]>>])

\* build_figure_builder: the instructions added to the builder, in order, and
\* the calls of additional_instructions with what the builder held then.
FigureBuilder ==
    LET instructions ==
            (IF title # <<>> THEN <<[name |-> "add_title", arg |-> title[1]]>> ELSE <<>>)
            \o (IF xlabel # <<>> THEN <<[name |-> "add_xlabel", arg |-> xlabel[1]]>> ELSE <<>>)
            \o (IF ylabel # <<>> THEN <<[name |-> "add_ylabel", arg |-> ylabel[1]]>> ELSE <<>>)
            \o (IF grid THEN <<[name |-> "add_grid", arg |-> <<>>]>> ELSE <<>>)
            \o (IF legend THEN <<[name |-> "add_legend", arg |-> <<>>]>> ELSE <<>>)
    IN IF interval.kind = "raises"
       THEN [Raises("build_figure_builder", interval.exc, interval.message)
                EXCEPT !.value = [instructions |-> instructions, callback |-> <<>>]]
       ELSE Returns("build_figure_builder",
                    [instructions |-> instructions,
                     callback |-> <<[builder |-> instructions,
                                     interval |-> interval.value]>>])

\* Faulty variant of XDomainSwitchHandler: switching off hides and does not clear.
XDomainSwitchHandlerKeepsText(on) ==
    [x_min_input |-> x_min_input, x_max_input |-> x_max_input,
     visibility |-> IF on
                    THEN [x_min_title |-> VISIBLE, x_min_input |-> VISIBLE,
                          x_max_title |-> VISIBLE, x_max_input |-> VISIBLE]
                    ELSE [x_min_title |-> HIDDEN, x_min_input |-> HIDDEN,
                          x_max_title |-> HIDDEN, x_max_input |-> HIDDEN]]

\* x_domain_switch_handler, given the switch's value.
XDomainSwitchHandler(on) ==
    IF on
    THEN [x_min_input |-> x_min_input, x_max_input |-> x_max_input,
          visibility |-> [x_min_title |-> VISIBLE, x_min_input |-> VISIBLE,
                          x_max_title |-> VISIBLE, x_max_input |-> VISIBLE]]
    ELSE [x_min_input |-> <<>>, x_max_input |-> <<>>,
          visibility |-> [x_min_title |-> HIDDEN, x_min_input |-> HIDDEN,
                          x_max_title |-> HIDDEN, x_max_input |-> HIDDEN]]

\* toggle() of a switch attribute; None has no toggle.
Toggled(sw) == IF sw = "on" THEN "off" ELSE "on"

\* __init__(additional_instructions, suffix, has_legend)
InitPlot ==
    /\ has_legend \in BOOLEAN
    /\ suffix \in Suffixes
    /\ base_name = <<>>
    /\ xcolumn = <<>>
    /\ ycolumn = <<>>
    /\ title_input = <<>>
    /\ xlabel_input = <<>>
    /\ ylabel_input = <<>>
    /\ grid_switch = FALSE
    /\ legend_switch = IF has_legend THEN "off" ELSE None
    /\ x_domain_switch = FALSE
    /\ visibility = [x_min_title |-> HIDDEN, x_min_input |-> HIDDEN,
                     x_max_title |-> HIDDEN, x_max_input |-> HIDDEN]
    /\ x_min_input = <<>>
    /\ x_max_input = <<>>
    /\ x_log_scale = FALSE
    /\ y_log_scale = FALSE
    /\ ret = Returns("__init__", None)

\* The user flips the custom-domain switch; on_change runs the handler.
ToggleXDomainSwitch ==
    LET eff == XDomainSwitchHandler(~x_domain_switch)
    IN /\ x_domain_switch' = ~x_domain_switch
       /\ x_min_input' = eff.x_min_input
       /\ x_max_input' = eff.x_max_input
       /\ visibility' = eff.visibility
       /\ ret' = ReturnsNone
       /\ UNCHANGED <<has_legend, suffix, base_name, xcolumn, ycolumn, title_input,
                      xlabel_input, ylabel_input, grid_switch, legend_switch,
                      x_log_scale, y_log_scale>>
       /\ UNCHANGED fileVars

\* The user types into a bound field, which takes a visible field.
EditXMin(t) ==
    /\ visibility.x_min_input = VISIBLE
    /\ x_min_input' = t
    /\ ret' = ReturnsNone
    /\ UNCHANGED <<has_legend, suffix, base_name, xcolumn, ycolumn, title_input,
                   xlabel_input, ylabel_input, grid_switch, legend_switch,
                   x_domain_switch, visibility, x_max_input, x_log_scale, y_log_scale>>
    /\ UNCHANGED fileVars

EditXMax(t) ==
    /\ visibility.x_max_input = VISIBLE
    /\ x_max_input' = t
    /\ ret' = ReturnsNone
    /\ UNCHANGED <<has_legend, suffix, base_name, xcolumn, ycolumn, title_input,
                   xlabel_input, ylabel_input, grid_switch, legend_switch,
                   x_domain_switch, visibility, x_min_input, x_log_scale, y_log_scale>>
    /\ UNCHANGED fileVars

EditLabels(t, x, y) ==
    /\ title_input' = t
    /\ xlabel_input' = x
    /\ ylabel_input' = y
    /\ ret' = ReturnsNone
    /\ UNCHANGED <<has_legend, suffix, base_name, xcolumn, ycolumn, grid_switch,
                   legend_switch, x_domain_switch, visibility, x_min_input,
                   x_max_input, x_log_scale, y_log_scale>>
    /\ UNCHANGED fileVars

toggle_grid_switch ==
    /\ grid_switch' = ~grid_switch
    /\ ret' = ReturnsNone
    /\ UNCHANGED <<has_legend, suffix, base_name, xcolumn, ycolumn, title_input,
                   xlabel_input, ylabel_input, legend_switch, x_domain_switch,
                   visibility, x_min_input, x_max_input, x_log_scale, y_log_scale>>
    /\ UNCHANGED fileVars

toggle_legend_switch ==
    /\ IF legend_switch = None
       THEN /\ ret' = Raises("toggle_legend_switch", "AttributeError",
                             "'NoneType' object has no attribute 'toggle'")
            /\ UNCHANGED legend_switch
       ELSE /\ legend_switch' = Toggled(legend_switch)
            /\ ret' = ReturnsNone
    /\ UNCHANGED <<has_legend, suffix, base_name, xcolumn, ycolumn, title_input,
                   xlabel_input, ylabel_input, grid_switch, x_domain_switch,
                   visibility, x_min_input, x_max_input, x_log_scale, y_log_scale>>
    /\ UNCHANGED fileVars

toggle_x_log_scale ==
    /\ x_log_scale' = ~x_log_scale
    /\ ret' = ReturnsNone
    /\ UNCHANGED <<has_legend, suffix, base_name, xcolumn, ycolumn, title_input,
                   xlabel_input, ylabel_input, grid_switch, legend_switch,
                   x_domain_switch, visibility, x_min_input, x_max_input, y_log_scale>>
    /\ UNCHANGED fileVars

toggle_y_log_scale ==
    /\ y_log_scale' = ~y_log_scale
    /\ ret' = ReturnsNone
    /\ UNCHANGED <<has_legend, suffix, base_name, xcolumn, ycolumn, title_input,
                   xlabel_input, ylabel_input, grid_switch, legend_switch,
                   x_domain_switch, visibility, x_min_input, x_max_input, x_log_scale>>
    /\ UNCHANGED fileVars

\* fitting_function is <<>> for None, <<title_name>> otherwise.
on_fitting_function_load(fitting_function) ==
    /\ base_name' = (IF fitting_function = <<>> THEN <<>> ELSE <<fitting_function[1]>>)
    /\ ret' = ReturnsNone
    /\ UNCHANGED <<has_legend, suffix, xcolumn, ycolumn, title_input, xlabel_input,
                   ylabel_input, grid_switch, legend_switch, x_domain_switch,
                   visibility, x_min_input, x_max_input, x_log_scale, y_log_scale>>
    /\ UNCHANGED fileVars

\* fitting_data is <<>> for None, <<x_column, y_column>> otherwise.
on_fitting_data_load(fitting_data) ==
    /\ IF fitting_data = <<>>
       THEN xcolumn' = <<>> /\ ycolumn' = <<>>
       ELSE xcolumn' = <<fitting_data[1]>> /\ ycolumn' = <<fitting_data[2]>>
    /\ ret' = ReturnsNone
    /\ UNCHANGED <<has_legend, suffix, base_name, title_input, xlabel_input,
                   ylabel_input, grid_switch, legend_switch, x_domain_switch,
                   visibility, x_min_input, x_max_input, x_log_scale, y_log_scale>>
    /\ UNCHANGED fileVars

\* Calls that only read the panel.
PlotState == <<has_legend, suffix, base_name, xcolumn, ycolumn, title_input,
               xlabel_input, ylabel_input, grid_switch, legend_switch,
               x_domain_switch, visibility, x_min_input, x_max_input,
               x_log_scale, y_log_scale>>

ReadXMin == ret' = xmin /\ UNCHANGED PlotState /\ UNCHANGED fileVars
ReadXMax == ret' = xmax /\ UNCHANGED PlotState /\ UNCHANGED fileVars
get_plot_kwargs == ret' = PlotKwargs /\ UNCHANGED PlotState /\ UNCHANGED fileVars
build_figure_builder == ret' = FigureBuilder /\ UNCHANGED PlotState /\ UNCHANGED fileVars

NextPlot ==
    \/ ToggleXDomainSwitch
    \/ \E t \in BoundTexts : EditXMin(t)
    \/ \E t \in BoundTexts : EditXMax(t)
    \/ \E t \in LabelTexts, x \in LabelTexts, y \in LabelTexts : EditLabels(t, x, y)
    \/ toggle_grid_switch
    \/ toggle_legend_switch
    \/ toggle_x_log_scale
    \/ toggle_y_log_scale
    \/ \E f \in {<<>>} \cup {<<n>> : n \in BaseNames} : on_fitting_function_load(f)
    \/ \E d \in {<<>>} \cup ColumnPairs : on_fitting_data_load(d)
    \/ ReadXMin
    \/ ReadXMax
    \/ get_plot_kwargs
    \/ build_figure_builder

\* ------------------------------------------------------- specifications
\* The file selector, two instances, beside one idle panel.
InitInputFile == InitFile /\ InitPlot /\ has_legend /\ suffix = SuffixFit
SpecInputFile == InitInputFile /\ [][NextFile]_vars

\* The panel, for either constructor argument, beside idle file selectors.
InitPlotConfig == InitFile /\ InitPlot
SpecPlotConfig == InitPlotConfig /\ [][NextPlot]_vars

\* ----------------------------------------------------- claims: selector
IsSpreadsheetPath(p) == Suffix(p) \in SpreadsheetSuffixes

\* C1: after a select_file call in which the user picked a file, the dataset
\* of that selector is None, and for a path without a spreadsheet extension
\* its dropdown is empty and disabled.
C1_PickedFileClearsDataset ==
    (lastEvent.op = "select_file" /\ lastEvent.dialog = "picked") =>
        /\ data_dict[lastEvent.box] = None
        /\ ~IsSpreadsheetPath(lastEvent.picked[1]) =>
              /\ select_sheet_items[lastEvent.box] = <<>>
              /\ ~select_sheet_enabled[lastEvent.box]

\* C2: in every reachable state the sheet dropdown of a selector is enabled
\* exactly when its stored file path has a spreadsheet extension.
C2_EnabledIffSpreadsheet ==
    \A b \in Boxes : select_sheet_enabled[b] <=> IsSpreadsheetPath(file_path[b])

\* C3: a select_file call whose dialog is cancelled changes no file path, no
\* dropdown and no dataset, and invokes no observer.
C3_CancelLeavesState ==
    [][(lastEvent'.op = "select_file" /\ lastEvent'.dialog = "cancelled") =>
          /\ file_path' = file_path
          /\ select_sheet_items' = select_sheet_items
          /\ select_sheet_enabled' = select_sheet_enabled
          /\ data_dict' = data_dict
          /\ lastEvent'.calls = <<>>
          /\ lastEvent'.assigned = <<>>]_vars

\* A dialog was cancelled while a dataset was loaded and an observer listened.
C3_Witness ==
    /\ lastEvent.op = "select_file"
    /\ lastEvent.dialog = "cancelled"
    /\ data_dict[lastEvent.box] \in Datasets
    /\ registered[lastEvent.box] # <<>>

\* C4: an assignment of the dataset of a selector stores the value and then
\* invokes the observers registered on that selector once each, in
\* registration order, each with the value stored and seeing it stored.
C4_AssignmentNotifiesInOrder ==
    lastEvent.assigned # <<>> =>
        LET b == lastEvent.box
            v == lastEvent.assigned[1]
            Mine(c) == c.fn \in Range(registered[b])
            mine == SelectSeq(lastEvent.calls, Mine)
        IN /\ Len(lastEvent.assigned) = 1
           /\ data_dict[b] = v
           /\ [i \in 1..Len(mine) |-> mine[i].fn] = registered[b]
           /\ \A i \in 1..Len(lastEvent.calls) :
                 lastEvent.calls[i].arg = v /\ lastEvent.calls[i].seen = v

\* A dataset was read and stored with two observers registered on the selector.
C4_Witness ==
    /\ lastEvent.op = "select_sheet"
    /\ lastEvent.assigned = <<"D2">>
    /\ Len(registered[lastEvent.box]) = 2

\* C5: a dataset change of one selector invokes only observers that were
\* registered on that selector.
C5_ObserversOwnedByInstance ==
    \A i \in 1..Len(lastEvent.calls) :
        lastEvent.calls[i].fn \in Range(registered[lastEvent.box])

\* C6: select_sheet leaves the file path and the dropdown alone; on the
\* sentinel it clears the dataset without reading or showing a dialog; on an
\* invalid-format failure of the reader it shows one error dialog naming the
\* sheet and the file, clears the dataset, hands None to every observer and
\* returns normally.
C6_SelectSheetFailureHandled ==
    [][lastEvent'.op = "select_sheet" =>
          LET e == lastEvent'
              b == e.box
          IN /\ file_path' = file_path
             /\ select_sheet_items' = select_sheet_items
             /\ select_sheet_enabled' = select_sheet_enabled
             /\ e.value = NO_VALUE =>
                   /\ data_dict'[b] = None
                   /\ e.reads = <<>>
                   /\ e.dialogs = <<>>
                   /\ e.outcome = "returned"
             /\ (e.value # NO_VALUE /\ e.reader = "invalid") =>
                   /\ e.dialogs = <<[title |-> "Invalid Input Source",
                                     sheet |-> e.value,
                                     file |-> Name(file_path[b])]>>
                   /\ data_dict'[b] = None
                   /\ Len(e.calls) = Len(handlers)
                   /\ \A i \in 1..Len(e.calls) : e.calls[i].arg = None
                   /\ e.outcome = "returned"]_vars

\* The reader rejected a sheet of a file in a directory while an observer listened.
C6_Witness ==
    /\ lastEvent.op = "select_sheet"
    /\ lastEvent.reader = "invalid"
    /\ lastEvent.value = "S2"
    /\ lastEvent.dialogs # <<>>
    /\ lastEvent.dialogs[1].file = <<"e", ".", "x", "l", "s">>
    /\ lastEvent.calls # <<>>

\* -------------------------------------------------------- claims: panel
AllBoundWidgets(v) ==
    /\ visibility.x_min_title = v
    /\ visibility.x_min_input = v
    /\ visibility.x_max_title = v
    /\ visibility.x_max_input = v

\* C7: the four bound widgets are visible exactly when the custom-domain
\* switch is on; a transition of the switch to off leaves both bound fields
\* empty, and a transition back to on starts from empty fields.
C7_BoundWidgetsFollowSwitch ==
    /\ [](IF x_domain_switch THEN AllBoundWidgets(VISIBLE) ELSE AllBoundWidgets(HIDDEN))
    /\ [][(x_domain_switch /\ ~x_domain_switch') =>
             (x_min_input' = <<>> /\ x_max_input' = <<>>)]_vars
    /\ [][(~x_domain_switch /\ x_domain_switch') =>
             (x_min_input' = <<>> /\ x_max_input' = <<>>)]_vars

\* The switch is on and text stands in both bound fields.
C7_Witness ==
    /\ x_domain_switch
    /\ AllBoundWidgets(VISIBLE)
    /\ x_min_input = TextOneAndHalf
    /\ x_max_input = TextLetters

\* What reading a bound is to give, text by text.
ExpectedBound(op, text, field) ==
    IF ~x_domain_switch \/ text = TextEmpty THEN Returns(op, None)
    ELSE IF text = TextOneAndHalf
    THEN Returns(op, [special |-> "", mant |-> 15, exp |-> -1])
    ELSE IF text = TextMinusTwenty
    THEN Returns(op, [special |-> "", mant |-> -2, exp |-> 1])
    ELSE Raises(op, "EddingtonException",
                IF field = "minimum" THEN "X minimum value must a floating number"
                ELSE "X maximum value must a floating number")

\* C8: xmin (xmax) returns None when the switch is off or the field is empty,
\* the parsed number when the switch is on and the text is numeric, and
\* otherwise raises the validation failure naming the field.
C8_BoundReadsParseOrRaise ==
    /\ ret.op = "xmin" => ret = ExpectedBound("xmin", x_min_input, "minimum")
    /\ ret.op = "xmax" => ret = ExpectedBound("xmax", x_max_input, "maximum")

\* xmin was read with the switch on and letters in the minimum field.
C8_Witness ==
    /\ ret.op = "xmin"
    /\ x_domain_switch
    /\ x_min_input = TextLetters
    /\ ret.kind = "raises"

\* C9: apart from reading an invalid numeric bound, no operation of the
\* panel raises, with or without legend support.
C9_OperationsTotal ==
    ret.kind = "raises" => ret.exc = "EddingtonException"

InstructionNames(instructions) ==
    [i \in 1..Len(instructions) |-> instructions[i].name]

\* The instruction names build_figure_builder is to attach, in order, given
\* which of the three texts count as present.
ExpectedNames(titlePresent, xPresent, yPresent) ==
    (IF titlePresent THEN <<"add_title">> ELSE <<>>)
    \o (IF xPresent THEN <<"add_xlabel">> ELSE <<>>)
    \o (IF yPresent THEN <<"add_ylabel">> ELSE <<>>)
    \o (IF grid_switch THEN <<"add_grid">> ELSE <<>>)
    \o (IF has_legend /\ legend_switch = "on" THEN <<"add_legend">> ELSE <<>>)

EffectiveTitleEmpty == title_input = <<>> /\ base_name = <<>> /\ suffix = <<>>
EffectiveXLabelEmpty == xlabel_input = <<>> /\ xcolumn \in {<<>>, <<(<<>>)>>}
EffectiveYLabelEmpty == ylabel_input = <<>> /\ ycolumn \in {<<>>, <<(<<>>)>>}
BoundUnreadable(text) == x_domain_switch /\ text = TextLetters

\* C10 as stated: each text instruction is attached exactly when its
\* effective value is non-empty, grid and legend when true, the callback is
\* then invoked exactly once with the builder and the interval, and the
\* kwargs hold the legend key exactly on a panel with legend support.
C10_AttachesIffNonEmpty ==
    /\ ret.op = "build_figure_builder" =>
          /\ InstructionNames(ret.value.instructions)
                = ExpectedNames(~EffectiveTitleEmpty, ~EffectiveXLabelEmpty,
                                ~EffectiveYLabelEmpty)
          /\ Len(ret.value.callback) = 1
    /\ (ret.op = "get_plot_kwargs" /\ ret.kind = "returns") =>
          ("legend" \in DOMAIN ret.value <=> has_legend)

\* C10 amended: the title instruction is always attached (the effective title
\* is never None, though it may be empty), a label instruction exactly when
\* the effective label is not None, grid and legend when true and legend
\* never without legend support; unless a bound is unreadable, in which case
\* the validation failure leaves build_figure_builder and the callback is not
\* invoked, the callback is invoked once, after those instructions, with the
\* builder and the interval; get_plot_kwargs, when it returns, holds the
\* legend key exactly on a panel with legend support.
C10_AttachesIffNotNone ==
    /\ ret.op = "build_figure_builder" =>
          LET names == InstructionNames(ret.value.instructions)
              unreadable == BoundUnreadable(x_min_input) \/ BoundUnreadable(x_max_input)
          IN /\ names = ExpectedNames(TRUE,
                                      xlabel_input # <<>> \/ xcolumn # <<>>,
                                      ylabel_input # <<>> \/ ycolumn # <<>>)
             /\ ~has_legend => "add_legend" \notin Range(names)
             /\ ret.kind = "raises" <=> unreadable
             /\ unreadable =>
                   ret.exc = "EddingtonException" /\ ret.value.callback = <<>>
             /\ ~unreadable =>
                   ret.value.callback =
                       <<[builder |-> ret.value.instructions,
                          interval |->
                              [min_val |-> ExpectedBound("xmin", x_min_input, "minimum").value,
                               max_val |-> ExpectedBound("xmax", x_max_input, "maximum").value]]>>
    /\ (ret.op = "get_plot_kwargs" /\ ret.kind = "returns") =>
          ("legend" \in DOMAIN ret.value <=> has_legend)

\* A builder was built with an empty effective title on a panel without
\* legend support, with a custom minimum.
C10_Witness ==
    /\ ret.op = "build_figure_builder"
    /\ ret.kind = "returns"
    /\ EffectiveTitleEmpty
    /\ ~has_legend
    /\ x_domain_switch
    /\ x_min_input = TextOneAndHalf
    /\ Len(ret.value.instructions) >= 2

====
